---- MODULE Spec2Model ----
(***************************************************************************)
(* A model of FaissHandler (src/faiss_handler.py) and of the way main.py   *)
(* drives it: one shared handler, several request threads, two snapshot    *)
(* files on disk.  One step of the model is one interaction of a thread    *)
(* with the shared state (the handler's fields, the lock, the two files);  *)
(* the interpreter may switch threads between any two of them.  A call     *)
(* into the index library (add, search, write_index) is one step: what a   *)
(* search sees of an add that runs inside the library at the same moment   *)
(* is either the index before it or the index after it.                    *)
(*                                                                         *)
(* Five systems are built from the same steps: Spec (threads that add,     *)
(* clear, search and count), SpecSave (threads that add, clear and save),  *)
(* SpecCrash (one thread, writes that can fail, restarts), SpecUpload      *)
(* (upload_vectors of main.py beside a reader) and SpecLive (add, clear    *)
(* and search under a fair scheduler).                                     *)
(***************************************************************************)
EXTENDS Integers, Sequences, FiniteSets, TLC

\* ------------------------------------------------------------------ bounds
\* settings.VECTOR_DIMENSION, scaled down from 128
Dimension == 2
\* adds are not called once the index holds this many vectors
MaxVectors == 2
\* the largest k a search is called with
MaxK == 2
\* settings.DISTANCE_NORMALIZATION_FACTOR
NormalizationFactor == 2

Threads == {"t1", "t2"}
NoThread == "none"

\* ------------------------------------------------------------------ inputs
ZeroVec == [i \in 1..Dimension |-> 0]
UnitVec == [i \in 1..Dimension |-> IF i = 1 THEN 1 ELSE 0]
LastVec == [i \in 1..Dimension |-> IF i = Dimension THEN 1 ELSE 0]
ShortVec == [i \in 1..(Dimension - 1) |-> 1]

\* what add is called with: the identifier tells which vector came with it
AddInputs ==
    { [id |-> "a", vec |-> LastVec],
      [id |-> "b", vec |-> UnitVec],
      [id |-> "c", vec |-> ShortVec] }

VecOf(id) == (CHOOSE a \in AddInputs : a.id = id).vec

FarVec == [i \in 1..Dimension |-> IF i = 1 THEN 2 ELSE 0]

Queries == {ZeroVec, UnitVec, FarVec}

\* ------------------------------------------------------------------ values
\* faiss.IndexFlatL2(d): an empty flat index of width d
IndexFlatL2(d) == [d |-> d, vecs |-> <<>>]

ntotal(ix) == Len(ix.vecs)

\* the content of the index file and of the identifier file
AbsentFile == [kind |-> "absent", d |-> 0, vecs |-> <<>>, ids |-> <<>>]
CorruptFile == [kind |-> "corrupt", d |-> 0, vecs |-> <<>>, ids |-> <<>>]
IndexFile(ix) == [kind |-> "data", d |-> ix.d, vecs |-> ix.vecs, ids |-> <<>>]
IdsFile(ids) == [kind |-> "data", d |-> 0, vecs |-> <<>>, ids |-> ids]

\* a snapshot left behind by a run configured with another VECTOR_DIMENSION
StaleVec == [i \in 1..(Dimension + 1) |-> 0]
StaleIndex == [d |-> Dimension + 1, vecs |-> <<StaleVec>>]

InitialDisks ==
    { <<AbsentFile, AbsentFile>>,
      <<IndexFile(StaleIndex), IdsFile(<<"a">>)>> }

\* one element of the "vectors" list of an uploaded file: an object with
\* product_id and embedding, an object without embedding, or no object at all
NoItem == [id |-> "", vec |-> <<>>]

Records ==
    {[shape |-> "pair", item |-> a] : a \in AddInputs}
        \cup {[shape |-> "no_embedding", item |-> NoItem],
              [shape |-> "not_object", item |-> NoItem]}

\* the records of a file that upload_vectors hands to add
Addable(file) ==
    {n \in 1..Len(file) :
        file[n].shape = "pair" /\ Len(file[n].item.vec) = Dimension}

Files == UNION {[1..n -> Records] : n \in 0..MaxVectors}

\* the locals of upload_vectors: vectors_data, the place in it (0 when the
\* thread is not in upload_vectors), added_count and failed_count
NoUpload == [file |-> <<>>, pos |-> 0, added |-> 0, failed |-> 0]

\* the two files as clear_all found them when it called save
NoSnap == <<>>

\* prev and snap are history: how the call before this clear_all ended, and
\* the files before its save
NoLocals ==
    [item |-> NoItem, q |-> <<>>, k |-> 0,
     sRef |-> "none", sIdx |-> IndexFlatL2(0),
     labels |-> <<>>, dists |-> <<>>, i |-> 0, results |-> <<>>,
     up |-> NoUpload, prev |-> "none", snap |-> NoSnap]

\* what a call ended with: the operation, and "ok" or what went wrong
NoRet == [op |-> "none", status |-> "none"]
Ret(op, status) == [op |-> op, status |-> status]

VARIABLES
    index,        \* self.index
    id_map,       \* self.id_map
    lock,         \* the thread holding self.lock, or NoThread
    diskIndex,    \* the file at self.index_path
    diskIds,      \* the file at self.ids_path
    loadOutcome,  \* the branch the last load() ended in
    pc,           \* where each thread is
    loc,          \* each thread's arguments and local variables
    ret           \* how each thread's last call ended

vars == <<index, id_map, lock, diskIndex, diskIds, loadOutcome, pc, loc, ret>>

\* ------------------------------------------------------------------ load
\* if self.index.d != self.dimension: raise ValueError
LoadMismatchRaises(ix) == ix.d # Dimension

\* except Exception as e: both fields are set anew, the error is printed and
\* load returns
LoadReinit(error) ==
    [index |-> IndexFlatL2(Dimension), id_map |-> <<>>, outcome |-> error]

\* mutant of Load: a pair of files of different lengths is not accepted
LoadCounts(fi, fs) ==
    IF fi.kind # "absent" /\ fs.kind # "absent"
    THEN IF fi.kind = "corrupt" \/ fs.kind = "corrupt"
         THEN LoadReinit("reinit_unreadable")
         ELSE IF LoadMismatchRaises(fi)
         THEN LoadReinit("reinit_dimension")
         ELSE IF Len(fs.ids) # Len(fi.vecs)
         THEN LoadReinit("reinit_unreadable")
         ELSE [index |-> [d |-> fi.d, vecs |-> fi.vecs], id_map |-> fs.ids,
               outcome |-> "loaded"]
    ELSE [index |-> IndexFlatL2(Dimension), id_map |-> <<>>,
          outcome |-> "new"]

\* mutant of Load: the except clause resets id_map only, and the index read
\* before json.load failed stays
LoadHalf(fi, fs) ==
    IF fi.kind = "absent" \/ fs.kind = "absent"
    THEN [index |-> IndexFlatL2(Dimension), id_map |-> <<>>, outcome |-> "new"]
    ELSE IF fi.kind = "corrupt" THEN LoadReinit("reinit_unreadable")
    ELSE IF fs.kind = "corrupt"
    THEN [index |-> [d |-> fi.d, vecs |-> fi.vecs], id_map |-> <<>>,
          outcome |-> "reinit_unreadable"]
    ELSE IF LoadMismatchRaises(fi) THEN LoadReinit("reinit_dimension")
    ELSE [index |-> [d |-> fi.d, vecs |-> fi.vecs], id_map |-> fs.ids,
          outcome |-> "loaded"]

\* load(), from the two files to the fields it leaves and the line it prints;
\* it returns nothing and lets no exception out
Load(fi, fs) ==
    IF fi.kind # "absent" /\ fs.kind # "absent"
    THEN IF fi.kind = "corrupt" \/ fs.kind = "corrupt"
         THEN LoadReinit("reinit_unreadable")
         ELSE IF LoadMismatchRaises(fi)
         THEN LoadReinit("reinit_dimension")
         ELSE [index |-> [d |-> fi.d, vecs |-> fi.vecs], id_map |-> fs.ids,
               outcome |-> "loaded"]
    ELSE [index |-> IndexFlatL2(Dimension), id_map |-> <<>>,
          outcome |-> "new"]

\* the handler as main.py constructs it: __init__ ends with load()
Init ==
    /\ \E disk \in InitialDisks :
          /\ diskIndex = disk[1]
          /\ diskIds = disk[2]
          /\ index = Load(disk[1], disk[2]).index
          /\ id_map = Load(disk[1], disk[2]).id_map
          /\ loadOutcome = Load(disk[1], disk[2]).outcome
    /\ lock = NoThread
    /\ pc = [t \in Threads |-> "idle"]
    /\ loc = [t \in Threads |-> NoLocals]
    /\ ret = [t \in Threads |-> NoRet]

\* the process dies wherever it is and is started again
Restart ==
    /\ index' = Load(diskIndex, diskIds).index
    /\ id_map' = Load(diskIndex, diskIds).id_map
    /\ loadOutcome' = Load(diskIndex, diskIds).outcome
    /\ lock' = NoThread
    /\ pc' = [t \in Threads |-> "idle"]
    /\ loc' = [t \in Threads |-> NoLocals]
    /\ ret' = [t \in Threads |-> NoRet]
    /\ UNCHANGED <<diskIndex, diskIds>>

\* ------------------------------------------------------------------ calls
Call(t, where, locals) ==
    /\ pc[t] = "idle"
    /\ pc' = [pc EXCEPT ![t] = where]
    /\ loc' = [loc EXCEPT ![t] = locals]
    /\ ret' = [ret EXCEPT ![t] = NoRet]

Return(t, r) ==
    /\ pc' = [pc EXCEPT ![t] = "idle"]
    /\ loc' = [loc EXCEPT ![t] = NoLocals]
    /\ ret' = [ret EXCEPT ![t] = r]

\* the locals of the caller, which a call made from upload_vectors or from
\* clear_all leaves alone
Kept(t) ==
    [NoLocals EXCEPT !.up = loc[t].up, !.prev = loc[t].prev,
                     !.snap = loc[t].snap]

\* ------------------------------------------------------------------ add
\* the threads that have called add and not yet appended to the index
Adding == {u \in Threads : pc[u] \in {"add_lock", "add_index"}}

\* add is called only while neither list has reached the bound
AddCall(t) ==
    /\ ntotal(index) + Cardinality(Adding) < MaxVectors
    /\ Len(id_map) + Cardinality(Adding) < MaxVectors
    /\ \E item \in AddInputs : Call(t, "add_lock", [NoLocals EXCEPT !.item = item])
    /\ UNCHANGED <<index, id_map, lock, diskIndex, diskIds, loadOutcome>>

\* mutant of AddAcquire: add does not wait for the lock
AddAcquireNoLock(t) ==
    /\ pc[t] = "add_lock"
    /\ lock' = t
    /\ pc' = [pc EXCEPT ![t] = "add_index"]
    /\ UNCHANGED <<index, id_map, diskIndex, diskIds, loadOutcome, loc, ret>>

\* with self.lock:
AddAcquire(t) ==
    /\ pc[t] = "add_lock"
    /\ lock = NoThread
    /\ lock' = t
    /\ pc' = [pc EXCEPT ![t] = "add_index"]
    /\ UNCHANGED <<index, id_map, diskIndex, diskIds, loadOutcome, loc, ret>>

\* index.add(x) asserts that x has the width of the index
IndexAddRaises(ix, vec) == Len(vec) # ix.d

\* index.add(x) appends the row
IndexAdd(ix, vec) == [ix EXCEPT !.vecs = Append(@, vec)]

\* add returns or raises: to the request that called it, or into the loop
\* of upload_vectors, which counts the item as added or as failed
AddReturn(t, status) ==
    IF loc[t].up.pos = 0
    THEN Return(t, Ret("add", status))
    ELSE /\ pc' = [pc EXCEPT ![t] = "upload_loop"]
         /\ loc' = [loc EXCEPT ![t] =
                      [Kept(t) EXCEPT
                          !.up.pos = @ + 1,
                          !.up.added = IF status = "ok" THEN @ + 1 ELSE @,
                          !.up.failed = IF status = "ok" THEN @ ELSE @ + 1]]
         /\ UNCHANGED ret

\* mutant of AddIndex: the identifier is appended before index.add is called
AddIndexIdFirst(t) ==
    /\ pc[t] = "add_index"
    /\ id_map' = Append(id_map, loc[t].item.id)
    /\ IF IndexAddRaises(index, loc[t].item.vec)
       THEN /\ lock' = NoThread
            /\ AddReturn(t, "DimensionError")
            /\ UNCHANGED index
       ELSE /\ index' = IndexAdd(index, loc[t].item.vec)
            /\ lock' = NoThread
            /\ AddReturn(t, "ok")
    /\ UNCHANGED <<diskIndex, diskIds, loadOutcome>>

\* mutant of AddIndex: an add that raises leaves the lock taken
AddIndexKeepsLock(t) ==
    /\ pc[t] = "add_index"
    /\ IF IndexAddRaises(index, loc[t].item.vec)
       THEN /\ AddReturn(t, "DimensionError")
            /\ UNCHANGED <<index, lock>>
       ELSE /\ index' = IndexAdd(index, loc[t].item.vec)
            /\ pc' = [pc EXCEPT ![t] = "add_ids"]
            /\ UNCHANGED <<lock, loc, ret>>
    /\ UNCHANGED <<id_map, diskIndex, diskIds, loadOutcome>>

\* self.index.add(vector_np)
AddIndex(t) ==
    /\ pc[t] = "add_index"
    /\ IF IndexAddRaises(index, loc[t].item.vec)
       THEN \* the with statement releases the lock on the way out
            /\ lock' = NoThread
            /\ AddReturn(t, "DimensionError")
            /\ UNCHANGED index
       ELSE /\ index' = IndexAdd(index, loc[t].item.vec)
            /\ pc' = [pc EXCEPT ![t] = "add_ids"]
            /\ UNCHANGED <<lock, loc, ret>>
    /\ UNCHANGED <<id_map, diskIndex, diskIds, loadOutcome>>

\* mutant of AddIds: add also writes the identifier file, as its docstring
\* has it
AddIdsSaves(t) ==
    /\ pc[t] = "add_ids"
    /\ id_map' = Append(id_map, loc[t].item.id)
    /\ diskIds' = IdsFile(id_map')
    /\ lock' = NoThread
    /\ AddReturn(t, "ok")
    /\ UNCHANGED <<index, diskIndex, loadOutcome>>

\* self.id_map.append(product_id); return self.index.ntotal
AddIds(t) ==
    /\ pc[t] = "add_ids"
    /\ id_map' = Append(id_map, loc[t].item.id)
    /\ lock' = NoThread
    /\ AddReturn(t, "ok")
    /\ UNCHANGED <<index, diskIndex, diskIds, loadOutcome>>

\* what add returns: self.index.ntotal, read before the lock is released
AddReturnValue == ntotal(index)

\* ------------------------------------------------------------------ save
\* save() evaluates self.index: the argument is the object, not a copy of it
SaveCall(t) ==
    /\ Call(t, "save_write", [NoLocals EXCEPT !.sRef = "self"])
    /\ UNCHANGED <<index, id_map, lock, diskIndex, diskIds, loadOutcome>>

\* the index object a save is about to write
SaveArgument(t) == IF loc[t].sRef = "self" THEN index ELSE loc[t].sIdx

\* mutant of SaveReturn: clear_all does not release the lock
SaveReturnKeepsLock(t, status) ==
    /\ lock' = lock
    /\ Return(t, Ret(IF lock = t THEN "clear_all" ELSE "save", status))

\* save returns: to clear_all, which then leaves the with block; to
\* upload_vectors, which answers with its counts whatever save printed; or
\* to the request that called it
SaveReturn(t, status) ==
    /\ lock' = IF lock = t THEN NoThread ELSE lock
    /\ Return(t, IF lock = t THEN Ret("clear_all", status)
                 ELSE IF loc[t].up.pos # 0 THEN Ret("upload", "ok")
                 ELSE Ret("save", status))

\* mutant of SaveWriteIndex: save writes the identifier file only
SaveWriteIndexSkips(t) ==
    /\ pc[t] = "save_write"
    /\ pc' = [pc EXCEPT ![t] = "save_ids"]
    /\ loc' = [loc EXCEPT ![t] = Kept(t)]
    /\ UNCHANGED <<index, id_map, lock, diskIndex, diskIds, loadOutcome, ret>>

\* faiss.write_index(self.index, self.index_path)
SaveWriteIndex(t) ==
    /\ pc[t] = "save_write"
    /\ diskIndex' = IndexFile(SaveArgument(t))
    /\ pc' = [pc EXCEPT ![t] = "save_ids"]
    /\ loc' = [loc EXCEPT ![t] = Kept(t)]
    /\ UNCHANGED <<index, id_map, lock, diskIds, loadOutcome, ret>>

\* write_index raises: the file is as it was or half written, the identifier
\* file is not touched, and the except clause swallows the error
SaveWriteIndexFails(t) ==
    /\ pc[t] = "save_write"
    /\ diskIndex' \in {diskIndex, CorruptFile}
    /\ SaveReturn(t, "save_failed")
    /\ UNCHANGED <<index, id_map, diskIds, loadOutcome>>

\* with open(self.ids_path, 'w') as f: json.dump(self.id_map, f)
SaveWriteIds(t) ==
    /\ pc[t] = "save_ids"
    /\ diskIds' = IdsFile(id_map)
    /\ SaveReturn(t, "ok")
    /\ UNCHANGED <<index, id_map, diskIndex, loadOutcome>>

\* open or json.dump raises: the file is as it was, or truncated
SaveWriteIdsFails(t) ==
    /\ pc[t] = "save_ids"
    /\ diskIds' \in {diskIds, CorruptFile}
    /\ SaveReturn(t, "save_failed")
    /\ UNCHANGED <<index, id_map, diskIndex, loadOutcome>>

\* ------------------------------------------------------------------ clear_all
\* prev: "ok" when the call this thread made before was a clear_all whose
\* save wrote both files
ClearCall(t) ==
    /\ Call(t, "clear_lock",
            [NoLocals EXCEPT !.prev = IF ret[t].op = "clear_all"
                                      THEN ret[t].status ELSE "none"])
    /\ UNCHANGED <<index, id_map, lock, diskIndex, diskIds, loadOutcome>>

ClearAcquire(t) ==
    /\ pc[t] = "clear_lock"
    /\ lock = NoThread
    /\ lock' = t
    /\ pc' = [pc EXCEPT ![t] = "clear_index"]
    /\ UNCHANGED <<index, id_map, diskIndex, diskIds, loadOutcome, loc, ret>>

\* mutant of ClearIndex: the index is not replaced
ClearIndexKeeps(t) ==
    /\ pc[t] = "clear_index"
    /\ pc' = [pc EXCEPT ![t] = "clear_ids"]
    /\ UNCHANGED <<index, id_map, lock, diskIndex, diskIds, loadOutcome, loc, ret>>

\* self.index = faiss.IndexFlatL2(self.dimension): a new object.  A save
\* that has already evaluated self.index still holds the old one.
ClearIndex(t) ==
    /\ pc[t] = "clear_index"
    /\ index' = IndexFlatL2(Dimension)
    /\ pc' = [pc EXCEPT ![t] = "clear_ids"]
    /\ loc' = [u \in Threads |->
                 IF loc[u].sRef = "self"
                 THEN [loc[u] EXCEPT !.sRef = "old", !.sIdx = index]
                 ELSE loc[u]]
    /\ UNCHANGED <<id_map, lock, diskIndex, diskIds, loadOutcome, ret>>

\* mutant of ClearIds: the identifiers stay
ClearIdsKeeps(t) ==
    /\ pc[t] = "clear_ids"
    /\ pc' = [pc EXCEPT ![t] = "save_write"]
    /\ loc' = [loc EXCEPT ![t] = [Kept(t) EXCEPT !.sRef = "self",
                                                 !.snap = <<diskIndex, diskIds>>]]
    /\ UNCHANGED <<index, id_map, lock, diskIndex, diskIds, loadOutcome, ret>>

\* self.id_map = []; then self.save() evaluates self.index
ClearIds(t) ==
    /\ pc[t] = "clear_ids"
    /\ id_map' = <<>>
    /\ pc' = [pc EXCEPT ![t] = "save_write"]
    /\ loc' = [loc EXCEPT ![t] = [Kept(t) EXCEPT !.sRef = "self",
                                                 !.snap = <<diskIndex, diskIds>>]]
    /\ UNCHANGED <<index, lock, diskIndex, diskIds, loadOutcome, ret>>

\* ------------------------------------------------------------------ search
RECURSIVE SumSq(_, _, _)
SumSq(q, v, n) ==
    IF n = 0 THEN 0
    ELSE (q[n] - v[n]) * (q[n] - v[n]) + SumSq(q, v, n - 1)

\* the squared L2 distance IndexFlatL2 reports
Distance(q, v) == SumSq(q, v, Len(v))

\* the first n rows (1-based) in the order a flat search reports them: by
\* distance, and among equal distances the row added first
RECURSIVE Ranked(_, _, _)
Ranked(ix, q, n) ==
    IF n = 0 THEN <<>>
    ELSE LET prev == Ranked(ix, q, n - 1)
             d == Distance(q, ix.vecs[n])
             ahead == Cardinality({j \in 1..Len(prev) :
                                      Distance(q, ix.vecs[prev[j]]) <= d})
         IN  SubSeq(prev, 1, ahead) \o <<n>> \o SubSeq(prev, ahead + 1, Len(prev))

\* mutant of IndexSearchLabels: the first k rows, nearest or not
IndexSearchLabelsUnranked(ix, q, k) ==
    [j \in 1..k |-> IF j <= ntotal(ix) THEN j - 1 ELSE -1]

\* index.search(q, k): k labels (0-based rows, -1 where there is no row) ...
IndexSearchLabels(ix, q, k) ==
    LET order == Ranked(ix, q, ntotal(ix))
    IN  [j \in 1..k |-> IF j <= Len(order) THEN order[j] - 1 ELSE -1]

\* ... and the distances of the rows the labels name
IndexSearchDists(ix, q, labels) ==
    [j \in 1..Len(labels) |->
        IF labels[j] = -1 THEN -1 ELSE Distance(q, ix.vecs[labels[j] + 1])]

\* mutant of Confidence: without the max
ConfidenceUnclamped(dist) == NormalizationFactor - dist

\* max(0.0, 1.0 - dist / NORMALIZATION_FACTOR), in units of
\* 1 / NormalizationFactor
Confidence(dist) ==
    IF NormalizationFactor - dist > 0 THEN NormalizationFactor - dist ELSE 0

\* the test on self.index.ntotal, then self.index.search(query_vector, k):
\* an index emptied between the two answers with -1 labels only, and the
\* call returns [] as it does when the test finds the index empty
SearchCall(t) ==
    /\ pc[t] = "idle"
    /\ \E q \in Queries, k \in 1..MaxK :
          IF ntotal(index) = 0
          THEN Return(t, Ret("search", "ok"))
          ELSE LET labels == IndexSearchLabels(index, q, k)
               IN  Call(t, "search_loop",
                        [NoLocals EXCEPT !.q = q, !.k = k, !.i = 1,
                                         !.labels = labels,
                                         !.dists = IndexSearchDists(index, q, labels)])
    /\ UNCHANGED <<index, id_map, lock, diskIndex, diskIds, loadOutcome>>

\* self.id_map[result_idx] raises IndexError
LookupRaises(ids, label) == label >= Len(ids)

\* the label the loop of thread t is at
LabelAt(t) == loc[t].labels[loc[t].i]

\* results after the round the loop of thread t is at: a label of -1 is
\* skipped, any other adds the identifier at that place and the confidence
Collected(t) ==
    IF LabelAt(t) = -1 THEN loc[t].results
    ELSE Append(loc[t].results,
                <<id_map[LabelAt(t) + 1], Confidence(loc[t].dists[loc[t].i])>>)

\* one round of the loop over the labels, and the return after the last
SearchLoop(t) ==
    /\ pc[t] = "search_loop"
    /\ LET i == loc[t].i
           found == Collected(t)
       IN  IF LabelAt(t) # -1 /\ LookupRaises(id_map, LabelAt(t))
           THEN Return(t, Ret("search", "IndexError"))
           ELSE IF i = loc[t].k
           THEN Return(t, Ret("search", "ok"))
           ELSE /\ loc' = [loc EXCEPT ![t].i = i + 1, ![t].results = found]
                /\ UNCHANGED <<pc, ret>>
    /\ UNCHANGED <<index, id_map, lock, diskIndex, diskIds, loadOutcome>>

\* the labels of a search that raise at the lookup in ids
BadLabels(labels, ids) ==
    {j \in 1..Len(labels) : labels[j] # -1 /\ LookupRaises(ids, labels[j])}

\* the pairs the first n rounds of the loop collect
RECURSIVE Found(_, _, _, _)
Found(labels, dists, ids, n) ==
    IF n = 0 THEN <<>>
    ELSE IF labels[n] = -1 THEN Found(labels, dists, ids, n - 1)
    ELSE Append(Found(labels, dists, ids, n - 1),
                <<ids[labels[n] + 1], Confidence(dists[n])>>)

\* search(vector, k) on a handler nobody else touches meanwhile
Search(ix, ids, q, k) ==
    IF ntotal(ix) = 0 THEN [status |-> "ok", results |-> <<>>]
    ELSE LET labels == IndexSearchLabels(ix, q, k)
         IN  IF BadLabels(labels, ids) # {}
             THEN [status |-> "IndexError", results |-> <<>>]
             ELSE [status |-> "ok",
                   results |-> Found(labels, IndexSearchDists(ix, q, labels),
                                     ids, k)]

\* ------------------------------------------------------------------ count
\* return self.index.ntotal if self.index else 0
TotalVectors == ntotal(index)

GetTotalVectors(t) ==
    /\ pc[t] = "idle"
    /\ Return(t, Ret("get_total_vectors", "ok"))
    /\ UNCHANGED <<index, id_map, lock, diskIndex, diskIds, loadOutcome>>

\* ------------------------------------------------------------------ upload
\* upload_vectors(file) with a file that parses to {"vectors": [...]}
UploadCall(t) ==
    /\ \E file \in Files :
          /\ ntotal(index) + Cardinality(Addable(file)) <= MaxVectors
          /\ Call(t, "upload_loop",
                  [NoLocals EXCEPT !.up = [NoUpload EXCEPT !.file = file,
                                                          !.pos = 1]])
    /\ UNCHANGED <<index, id_map, lock, diskIndex, diskIds, loadOutcome>>

\* the record the loop of upload_vectors is at
RecordAt(t) == loc[t].up.file[loc[t].up.pos]

\* item_data.get raises AttributeError, in the try block and again in the
\* except clause that reports the item
GetRaises(record) == record.shape = "not_object"

\* VectorInput(**item_data_mapped) raises ValidationError, or the vector has
\* another length than db_handler.dimension
ItemRejected(record) ==
    \/ record.shape = "no_embedding"
    \/ record.shape = "pair" /\ Len(record.item.vec) # Dimension

\* one round of the loop up to the call of db_handler.add
UploadItem(t) ==
    /\ pc[t] = "upload_loop"
    /\ loc[t].up.pos <= Len(loc[t].up.file)
    /\ IF GetRaises(RecordAt(t))
       THEN \* the second AttributeError leaves the handler: the request
            \* ends with a server error, save is not reached
            Return(t, Ret("upload", "ServerError"))
       ELSE IF ItemRejected(RecordAt(t))
       THEN /\ loc' = [loc EXCEPT ![t].up.pos = @ + 1,
                                  ![t].up.failed = @ + 1]
            /\ UNCHANGED <<pc, ret>>
       ELSE /\ pc' = [pc EXCEPT ![t] = "add_lock"]
            /\ loc' = [loc EXCEPT ![t].item = RecordAt(t).item]
            /\ UNCHANGED ret
    /\ UNCHANGED <<index, id_map, lock, diskIndex, diskIds, loadOutcome>>

\* db_handler.save() after the loop
UploadSave(t) ==
    /\ pc[t] = "upload_loop"
    /\ loc[t].up.pos > Len(loc[t].up.file)
    /\ pc' = [pc EXCEPT ![t] = "save_write"]
    /\ loc' = [loc EXCEPT ![t].sRef = "self"]
    /\ UNCHANGED <<index, id_map, lock, diskIndex, diskIds, loadOutcome, ret>>

\* ------------------------------------------------------------------ systems
\* add and clear_all, whoever calls them
Mutate(t) ==
    \/ AddCall(t) \/ AddAcquire(t) \/ AddIndex(t) \/ AddIds(t)
    \/ ClearCall(t) \/ ClearAcquire(t) \/ ClearIndex(t) \/ ClearIds(t)
    \/ SaveWriteIndex(t) \/ SaveWriteIds(t)

\* the requests served while the disk works: threads that add, clear, search
\* and count
Next ==
    \E t \in Threads :
        Mutate(t) \/ SearchCall(t) \/ SearchLoop(t) \/ GetTotalVectors(t)

Spec == Init /\ [][Next]_vars

\* threads that add, clear and save while the disk works
NextSave == \E t \in Threads : Mutate(t) \/ SaveCall(t)

SpecSave == Init /\ [][NextSave]_vars

\* one thread, a disk whose writes can fail, and a process that can die at
\* any step and be started again
Worker == "t1"

NextCrash ==
    \/ Mutate(Worker) \/ SaveCall(Worker)
    \/ SearchCall(Worker) \/ SearchLoop(Worker) \/ GetTotalVectors(Worker)
    \/ SaveWriteIndexFails(Worker) \/ SaveWriteIdsFails(Worker)
    \/ Restart

SpecCrash == Init /\ [][NextCrash]_vars

\* main.py as it runs: upload_vectors on the event loop, one at a time, and
\* a thread of the pool that serves read_root, which reads the count
Uploader == "t1"
Reader == "t2"

NextUpload ==
    \/ UploadCall(Uploader) \/ UploadItem(Uploader) \/ UploadSave(Uploader)
    \/ AddAcquire(Uploader) \/ AddIndex(Uploader) \/ AddIds(Uploader)
    \/ SaveWriteIndex(Uploader) \/ SaveWriteIds(Uploader)
    \/ GetTotalVectors(Reader)

SpecUpload == Init /\ [][NextUpload]_vars

\* threads that add and clear, one of which also searches and counts, with
\* a scheduler that lets every thread that can take a step take one, a disk
\* whose writes end, and a lock that a thread waiting for it gets when it is
\* free again and again
Step(t) ==
    \/ AddIndex(t) \/ AddIds(t) \/ ClearIndex(t) \/ ClearIds(t)
    \/ SaveWriteIndex(t) \/ SaveWriteIds(t)

NextLive ==
    \/ \E t \in Threads :
          \/ AddCall(t) \/ AddAcquire(t) \/ ClearCall(t) \/ ClearAcquire(t)
          \/ Step(t)
    \/ SearchCall(Reader) \/ SearchLoop(Reader) \/ GetTotalVectors(Reader)

Fairness ==
    /\ \A t \in Threads :
           /\ WF_vars(Step(t))
           /\ SF_vars(AddAcquire(t))
           /\ SF_vars(ClearAcquire(t))
    /\ WF_vars(SearchLoop(Reader))

SpecLive == Init /\ [][NextLive]_vars /\ Fairness

\* ================================================================== claims

\* the program points inside the bodies of add, clear_all, save and search
BodyPcs ==
    {"add_index", "add_ids", "clear_index", "clear_ids", "save_write",
     "save_ids", "search_loop"}

\* a thread that reads the handler now: one about to call search or
\* get_total_vectors, or one inside search
Reading(t) == pc[t] \in {"idle", "search_loop"}

\* C1: whenever a thread reads the handler, id_map has as many identifiers
\* as the index has vectors, and get_total_vectors returns that number.
\* Stated as the claim has it; the code breaks it between the two appends of
\* add.
C1_LengthsAgreeWhenRead ==
    (\E t \in Threads : Reading(t)) =>
        Len(id_map) = ntotal(index) /\ TotalVectors = Len(id_map)

\* C2: no two threads are inside the bodies of add, clear_all, save and
\* search at the same time.  Stated as the claim has it; search takes no
\* lock.
C2_BodiesSerialized ==
    Cardinality({t \in Threads : pc[t] \in BodyPcs}) <= 1

\* C3: every label a search looks up is a position of id_map when it is
\* looked up, and the identifier found there came with the vector the label
\* stands for.  Stated as the claim has it; the code lets add and clear_all
\* run between index.search and the lookups.
C3_SearchLookupsValid ==
    \A t \in Threads :
        (pc[t] = "search_loop" /\ LabelAt(t) # -1) =>
            /\ ~LookupRaises(id_map, LabelAt(t))
            /\ Distance(loc[t].q, VecOf(id_map[LabelAt(t) + 1]))
                   = loc[t].dists[loc[t].i]

\* the step in which add appends its vector, the step in which clear_all
\* replaces the index
AddAppends(t) == pc[t] = "add_index" /\ pc'[t] = "add_ids"
ClearResets(t) == pc[t] = "clear_index" /\ pc'[t] = "clear_ids"

\* C4: the count goes up by exactly one where an add appends, goes to 0
\* where clear_all resets, and no other step of add, search, save, clear_all
\* or get_total_vectors changes it.
C4_CountSteps ==
    [][ /\ \A t \in Threads : AddAppends(t) => ntotal(index') = TotalVectors + 1
        /\ \A t \in Threads : ClearResets(t) => ntotal(index') = 0
        /\ (\A t \in Threads : ~AddAppends(t) /\ ~ClearResets(t)) =>
               ntotal(index') = TotalVectors ]_vars

\* C4 witness: one thread has cleared, the other has added since
C4_Witness ==
    \E t, u \in Threads :
        /\ ret[t] = Ret("add", "ok")
        /\ ret[u] = Ret("clear_all", "ok")
        /\ TotalVectors = 1

\* a snapshot pair whose identifier file is shorter than its index file
SnapshotTruncated ==
    /\ diskIndex.kind = "data" /\ diskIds.kind = "data"
    /\ diskIndex.d = Dimension
    /\ Len(diskIds.ids) < Len(diskIndex.vecs)

\* the store load falls back to
FellBack(ix, ids) == ix = IndexFlatL2(Dimension) /\ ids = <<>>

\* C5: a load that finds fewer identifiers than vectors falls back to the
\* empty store.  Stated as the claim has it; load compares no lengths.
C5_TruncatedSnapshotRejected ==
    [][ (Restart /\ SnapshotTruncated) =>
            FellBack(index', id_map') /\ loadOutcome' # "loaded" ]_vars

\* a readable snapshot pair of another width than the configured one
SnapshotStale ==
    /\ diskIndex.kind = "data" /\ diskIds.kind = "data"
    /\ diskIndex.d # Dimension

\* C6: a load that finds a snapshot of another width does not end as the
\* load of an unreadable snapshot does, with the empty store and no error
\* for the caller.  Stated as the claim has it; the ValueError is raised
\* inside the try block that swallows every exception.
C6_DimensionMismatchSurfaced ==
    [][ (Restart /\ SnapshotStale) => ~FellBack(index', id_map') ]_vars

NoSnapshotPair == diskIndex.kind = "absent" \/ diskIds.kind = "absent"

SnapshotUnreadable ==
    /\ ~NoSnapshotPair
    /\ diskIndex.kind = "corrupt" \/ diskIds.kind = "corrupt"

\* C7: a load that finds no snapshot pair, or cannot read one of the two
\* files, leaves the empty index of the configured width and the empty
\* id_map, never one of them from disk.
C7_LoadFallsBackToEmpty ==
    [][ (Restart /\ (NoSnapshotPair \/ SnapshotUnreadable)) =>
            /\ FellBack(index', id_map')
            /\ loadOutcome' \in {"new", "reinit_unreadable"} ]_vars

\* C7 witness: the process has just started on a readable index file with
\* vectors in it and an unreadable identifier file
C7_Witness ==
    /\ loadOutcome = "reinit_unreadable"
    /\ pc[Worker] = "idle" /\ ret[Worker] = NoRet
    /\ diskIndex.kind = "data" /\ Len(diskIndex.vecs) > 0
    /\ diskIds.kind = "corrupt"
    /\ FellBack(index, id_map)

\* C8: the step of add that finds a vector of another length than the
\* dimension ends the call with the error, releases the lock and leaves the
\* index and id_map as they were.
C8_FailedAddChangesNothing ==
    [][ \A t \in Threads :
            ( /\ pc[t] = "add_index" /\ pc'[t] # "add_index"
              /\ Len(loc[t].item.vec) # Dimension ) =>
                /\ index' = index /\ id_map' = id_map
                /\ ret'[t] = Ret("add", "DimensionError")
                /\ pc'[t] = "idle" /\ lock' = NoThread ]_vars

\* C8 witness: an add has failed on a store that holds a vector
C8_Witness ==
    \E t \in Threads :
        /\ ret[t] = Ret("add", "DimensionError")
        /\ lock = NoThread
        /\ TotalVectors > 0 /\ Len(id_map) = TotalVectors

\* C9: when a save has written both files, a load of them gives the count,
\* the identifiers and the search results of the store in memory.
C9_SaveThenLoadRoundTrip ==
    ret[Worker] = Ret("save", "ok") =>
        LET got == Load(diskIndex, diskIds)
        IN  /\ ntotal(got.index) = TotalVectors
            /\ got.index = index
            /\ got.id_map = id_map
            /\ \A q \in Queries, k \in 1..MaxK :
                   Search(got.index, got.id_map, q, k) = Search(index, id_map, q, k)

\* C9 witness: a save of a store of two entries has completed
C9_Witness ==
    /\ ret[Worker] = Ret("save", "ok")
    /\ TotalVectors = 2 /\ id_map = <<"a", "b">>

\* C10: when clear_all returns, index and id_map are empty, the two files
\* hold the empty index and the empty list, and a load of them counts 0.
\* Stated as the claim has it; a save that runs without the lock can write
\* the index it picked up before the clear.
C10_ClearPersistsEmpty ==
    [][ \A t \in Threads :
            (pc[t] # "idle" /\ ret'[t].op = "clear_all") =>
                /\ FellBack(index', id_map')
                /\ diskIndex' = IndexFile(IndexFlatL2(Dimension))
                /\ diskIds' = IdsFile(<<>>)
                /\ ntotal(Load(diskIndex', diskIds').index) = 0 ]_vars

\* the four things a clear_all works on
Persisted == <<index, id_map, diskIndex, diskIds>>

\* the store and the snapshot pair of a handler that holds nothing
Emptied ==
    <<IndexFlatL2(Dimension), <<>>, IndexFile(IndexFlatL2(Dimension)), IdsFile(<<>>)>>

\* C11: every clear_all returns without an exception and leaves index and
\* id_map empty (count 0), and with both files written the empty snapshot
\* pair; a clear_all called right after one whose save wrote both files
\* changes neither memory nor the files in any of its steps, so the state
\* after the second call is the state after the first.
C11_ClearTwice ==
    [][ \A t \in Threads :
            /\ (pc[t] # "idle" /\ ret'[t].op = "clear_all") =>
                   /\ ret'[t].status \in {"ok", "save_failed"}
                   /\ ntotal(index') = 0 /\ id_map' = <<>>
                   /\ lock' = NoThread
                   /\ ret'[t].status = "ok" => Persisted' = Emptied
            /\ (loc[t].prev = "ok" /\ ret'[t].status # "save_failed") =>
                   Persisted' = Persisted ]_vars

\* C11 witness: the second of two clear_all calls in a row has replaced the
\* index, reset id_map and written the index file, and is at its last write
C11_Witness ==
    /\ pc[Worker] = "save_ids" /\ lock = Worker
    /\ loc[Worker].prev = "ok"
    /\ Persisted = Emptied

\* a store of N entries: every identifier sits at the place of the vector it
\* was added with
Paired(ix, ids) ==
    /\ Len(ids) = ntotal(ix)
    /\ \A p \in 1..Len(ids) : VecOf(ids[p]) = ix.vecs[p]

Min(a, b) == IF a < b THEN a ELSE b

\* row p comes before row r in the answer to q: it is nearer, or as near and
\* stored earlier
Ahead(ix, q, p, r) ==
    \/ Distance(q, ix.vecs[p]) < Distance(q, ix.vecs[r])
    \/ Distance(q, ix.vecs[p]) = Distance(q, ix.vecs[r]) /\ p < r

\* rows lists the nearest rows in order: each comes before the next, and
\* before every row that is not listed
Nearest(ix, q, rows) ==
    /\ \A j \in 1..(Len(rows) - 1) : Ahead(ix, q, rows[j], rows[j + 1])
    /\ \A r \in 1..ntotal(ix) :
           (\A j \in 1..Len(rows) : rows[j] # r) =>
               \A j \in 1..Len(rows) : Ahead(ix, q, rows[j], r)

\* got is what the claim has search(q, k) return on the store (ix, ids)
Answers(ix, ids, q, k, got) ==
    /\ Len(got) = Min(k, ntotal(ix))
    /\ \E rows \in [1..Len(got) -> 1..ntotal(ix)] :
           /\ Nearest(ix, q, rows)
           /\ \A j \in 1..Len(got) :
                  /\ got[j] = <<ids[rows[j]],
                                Confidence(Distance(q, ix.vecs[rows[j]]))>>
                  /\ VecOf(got[j][1]) = ix.vecs[rows[j]]

\* C12: a search on a store of N entries that nobody changes meanwhile
\* returns without an error; it returns the empty list when N = 0, and
\* otherwise min(k, N) pairs: the nearest rows by squared L2 distance,
\* nearest first and among equal distances the row stored first, each with
\* the identifier that was added with its vector.
C12_SearchNearest ==
    [][ \A t \in Threads :
            (ret'[t].op = "search" /\ Paired(index, id_map)) =>
                /\ ret'[t].status = "ok"
                /\ IF pc[t] = "idle" THEN ntotal(index) = 0
                   ELSE Answers(index, id_map, loc[t].q, loc[t].k,
                                Collected(t)) ]_vars

\* C12 witness: the last round of a search for two on a store of two rows
\* that are equally far from the query
C12_Witness ==
    /\ pc[Worker] = "search_loop"
    /\ loc[Worker].k = 2 /\ loc[Worker].i = 2
    /\ loc[Worker].q = ZeroVec
    /\ id_map = <<"b", "a">> /\ Paired(index, id_map)
    /\ Collected(Worker) = << <<"b", 1>>, <<"a", 1>> >>

\* the distances a flat index can report for the vectors and queries above,
\* and beyond
Distances == 0..(NormalizationFactor + 4 * Dimension)

Max(S) == CHOOSE x \in S : \A y \in S : y <= x

\* C13: the confidence of every distance d >= 0 is max(0, 1 - d / factor),
\* lies between 0 and 1, is 1 for d = 0 and 0 for every d >= factor, and
\* does not grow with d; every pair a search collects carries the confidence
\* of the distance index.search reported for it, and the pairs are collected
\* in non-increasing order of confidence.  Confidences are counted in units
\* of 1 / factor, so 1 is NormalizationFactor.
C13_ConfidenceBounds ==
    /\ \A d \in Distances :
           /\ Confidence(d) = Max({0, NormalizationFactor - d})
           /\ Confidence(d) \in 0..NormalizationFactor
           /\ d = 0 => Confidence(d) = NormalizationFactor
           /\ d >= NormalizationFactor => Confidence(d) = 0
           /\ \A e \in Distances : d <= e => Confidence(d) >= Confidence(e)
    /\ \A t \in Threads :
           ( /\ pc[t] = "search_loop"
             /\ LabelAt(t) # -1 => ~LookupRaises(id_map, LabelAt(t)) ) =>
               LET got == Collected(t)
               IN  /\ LabelAt(t) # -1 =>
                          /\ loc[t].dists[loc[t].i] \in Distances
                          /\ got[Len(got)][2] =
                                 Max({0, NormalizationFactor
                                            - loc[t].dists[loc[t].i]})
                   /\ \A j \in 1..Len(got) :
                          got[j][2] \in 0..NormalizationFactor
                   /\ \A j \in 1..(Len(got) - 1) :
                          got[j][2] >= got[j + 1][2]

\* C13 witness: a search has collected a pair at distance 1 and one beyond
\* the factor, whose confidence is cut off at 0
C13_Witness ==
    \E t \in Threads :
        /\ pc[t] = "search_loop" /\ loc[t].i = 2
        /\ loc[t].dists = <<1, 5>>
        /\ Len(id_map) = 2
        /\ Collected(t) = << <<"b", 1>>, <<"a", 0>> >>

\* thread t is inside upload_vectors, at the loop or in a call made from it
Uploading(t) == loc[t].up.pos # 0

\* the step is one of thread t
Moved(t) == pc'[t] # pc[t] \/ loc'[t] # loc[t] \/ ret'[t] # ret[t]

\* C14: in upload_vectors every record that cannot be added is counted as
\* failed, leaves index and id_map alone and the loop goes on; every other
\* record is appended, in file order, and counted as added; nothing else
\* changes the number of entries, so it grows by added_count; the request
\* ends after save was called behind the last record, with added_count +
\* failed_count the number of records.  Stated as the claim has it; a record
\* that is not an object ends the request in the loop.
C14_BatchItemsIndependent ==
    [][ \A t \in Threads :
            /\ ( /\ Moved(t) /\ pc[t] = "upload_loop"
                 /\ loc[t].up.pos <= Len(loc[t].up.file)
                 /\ GetRaises(RecordAt(t)) \/ ItemRejected(RecordAt(t)) ) =>
                   /\ pc'[t] = "upload_loop"
                   /\ loc'[t].up = [loc[t].up EXCEPT !.pos = @ + 1,
                                                     !.failed = @ + 1]
                   /\ index' = index /\ id_map' = id_map
            /\ (Moved(t) /\ Uploading(t) /\ pc[t] = "add_ids") =>
                   /\ id_map' = Append(id_map, RecordAt(t).item.id)
                   /\ index'.vecs[Len(id_map')] = RecordAt(t).item.vec
                   /\ loc'[t].up = [loc[t].up EXCEPT !.pos = @ + 1,
                                                     !.added = @ + 1]
            /\ (Uploading(t) /\ loc'[t].up.pos # 0) =>
                   Len(id_map') - loc'[t].up.added
                       = Len(id_map) - loc[t].up.added
            /\ (Uploading(t) /\ loc'[t].up.pos = 0) =>
                   /\ ret'[t] = Ret("upload", "ok")
                   /\ pc[t] = "save_ids"
                   /\ loc[t].up.added + loc[t].up.failed = Len(loc[t].up.file)
                   /\ ntotal(index') = Len(id_map') ]_vars

\* C15: whenever the lock is free, id_map holds at every place the
\* identifier added with the vector at that place of the index; the last
\* step of an add puts its identifier at the place its vector went to, and
\* the count the add returns is that place, the number of entries right
\* after its own append, so adds return different counts until a clear_all
\* empties the store.
C15_AddsAtomic ==
    [][ /\ lock' = NoThread => Paired(index', id_map')
        /\ \A t \in Threads :
               (Moved(t) /\ pc[t] = "add_ids") =>
                   /\ lock = t
                   /\ ret'[t] = Ret("add", "ok")
                   /\ AddReturnValue = Len(id_map')
                   /\ AddReturnValue = ntotal(index')
                   /\ id_map'[AddReturnValue] = loc[t].item.id
                   /\ index'.vecs[AddReturnValue] = loc[t].item.vec ]_vars

\* C15 witness: two threads have each added an entry to the same store
C15_Witness ==
    /\ \A t \in Threads : ret[t] = Ret("add", "ok")
    /\ lock = NoThread
    /\ id_map = <<"b", "a">> /\ Paired(index, id_map)

\* C16: when a save has written both files and returns, the identifier file
\* holds as many identifiers as the index file holds vectors, whatever add
\* and clear_all calls of other threads ran meanwhile.  Stated as the claim
\* has it; save called on its own takes no lock, and an add can run between
\* its two writes.
C16_SavedFilesMatch ==
    [][ \A t \in Threads :
            (Moved(t) /\ pc[t] = "save_ids" /\ ret'[t].status = "ok") =>
                /\ diskIndex'.kind = "data" /\ diskIds'.kind = "data"
                /\ Len(diskIds'.ids) = Len(diskIndex'.vecs) ]_vars

\* the process dies between the two writes of a save
CrashInSave == Restart /\ pc[Worker] = "save_ids"

\* C17 as stated: a crash between the two writes of a save leaves a pair of
\* files that the next load accepts, with a store in which id_map and the
\* index differ in length.  It fails when there is no identifier file yet
\* (load starts an empty store) and when the previous list is as long as the
\* new index.
C17_CrashWindowMismatch ==
    [][ CrashInSave =>
            /\ loadOutcome' = "loaded"
            /\ Len(id_map') # ntotal(index') ]_vars

\* C17: a crash between the two writes of a save leaves the new index file
\* beside the previous identifier file; when that file is readable and holds
\* another number of identifiers than the index has vectors, the next load
\* accepts the pair: the store has the new index, the previous identifiers,
\* and the two differ in length.
C17_CrashWindowAccepted ==
    [][ ( /\ CrashInSave
          /\ diskIds.kind = "data"
          /\ Len(diskIds.ids) # ntotal(index) ) =>
            /\ diskIndex = IndexFile(index)
            /\ loadOutcome' = "loaded"
            /\ index' = index
            /\ id_map' = diskIds.ids
            /\ Len(id_map') # ntotal(index') ]_vars

\* C17 witness: the process has started on a new index file of two vectors
\* and the identifier file of the snapshot before, which names one
C17_Witness ==
    /\ loadOutcome = "loaded"
    /\ pc[Worker] = "idle" /\ ret[Worker] = NoRet
    /\ diskIndex = IndexFile(index) /\ diskIds = IdsFile(id_map)
    /\ ntotal(index) = 2 /\ Len(id_map) = 1

\* C18 as stated: a save that fails returns normally, leaves index and
\* id_map as they were and the lock free, and after a clear_all whose save
\* failed the store is empty and both files are as they were before the
\* save.  It fails for the files: the index file may be written before the
\* error comes, and a failed write may leave its file truncated.
C18_FailedSaveKeepsSnapshot ==
    [][ \A t \in Threads :
            (Moved(t) /\ ret'[t].status = "save_failed") =>
                /\ pc'[t] = "idle"
                /\ index' = index /\ id_map' = id_map
                /\ lock' = NoThread
                /\ ret'[t].op = "clear_all" =>
                       /\ FellBack(index', id_map')
                       /\ <<diskIndex', diskIds'>> = loc[t].snap ]_vars

\* C18: a save that fails returns normally, leaves index and id_map as they
\* were and the lock free; after a clear_all whose save failed the store is
\* empty, the identifier file is the one from before the save or
\* unreadable, and the index file is the one from before the save,
\* unreadable, or the new empty index.
C18_FailedSaveKeepsMemory ==
    [][ \A t \in Threads :
            (Moved(t) /\ ret'[t].status = "save_failed") =>
                /\ pc'[t] = "idle"
                /\ index' = index /\ id_map' = id_map
                /\ lock' = NoThread
                /\ ret'[t].op = "clear_all" =>
                       /\ FellBack(index', id_map')
                       /\ diskIds' \in {loc[t].snap[2], CorruptFile}
                       /\ diskIndex' \in {loc[t].snap[1], CorruptFile,
                                           IndexFile(index)} ]_vars

\* C18 witness: a clear_all has returned after its save wrote the empty
\* index and failed at the identifier file, which still names an entry
C18_Witness ==
    /\ ret[Worker] = Ret("clear_all", "save_failed")
    /\ lock = NoThread /\ FellBack(index, id_map)
    /\ diskIndex = IndexFile(index)
    /\ diskIds.kind = "data" /\ Len(diskIds.ids) = 1

====
